---- MODULE Spec2Model ----
(***************************************************************************)
(* Model of DatosEN10025_2 (table_7_mechanical_properties.py): the         *)
(* accessor of table EN_10025_2_2004 that returns the yield strength fy    *)
(* and the tensile strength fu of a steel grade at a nominal thickness.    *)
(*                                                                         *)
(* Strings are sequences of one-character strings.  A thickness is a       *)
(* float in the program; here it is a whole number of 1/Scale mm, so that  *)
(* thicknesses between two whole millimetres are covered.                  *)
(***************************************************************************)
EXTENDS Integers, Sequences, FiniteSets, TLC

VARIABLES
    acero,      \* self.acero: the grade string given to the constructor
    t,          \* self.t: the nominal thickness, in 1/Scale mm
    store,      \* the rows of table EN_10025_2_2004 in the database file
    df_cache,   \* self._df_cache: None or the loaded table
    reads,      \* number of reads of the backing store by the instance
    stdout,     \* what the instance's methods have printed
    ret_tmax,   \* outcome of the last call of _obtener_t_max
    ret_fy,     \* outcome of the last call of limite_elastico
    ret_fu,     \* outcome of the last call of resistencia_ultima_traccion
    ret_cal,    \* outcome of the last call of calidades
    ret_simb,   \* outcome of the last call of calidades_simbolo_principal
    cachesC,    \* concurrent use: self._df_cache of each instance
    readsC,     \* concurrent use: reads of the backing store per instance
    pc,         \* concurrent use: each caller's position in _load_dataframe
    instOf,     \* concurrent use: the instance each caller calls
    localDf,    \* concurrent use: the table a caller has read, not yet cached
    retC        \* concurrent use: what _load_dataframe returned to a caller

seqVars  == <<acero, t, store, df_cache, reads, stdout,
              ret_tmax, ret_fy, ret_fu, ret_cal, ret_simb>>
concVars == <<cachesC, readsC, pc, instOf, localDf, retC>>
vars     == <<acero, t, store, df_cache, reads, stdout,
              ret_tmax, ret_fy, ret_fu, ret_cal, ret_simb,
              cachesC, readsC, pc, instOf, localDf, retC>>

-----------------------------------------------------------------------------
(* Bounds of the model *)

\* thicknesses are multiples of 1/Scale mm
Scale == 2
\* largest number of rows of a table
MaxRows == 3
\* largest number of lines kept of the printed output
MaxPrints == 2
\* largest thickness (mm) of the exhaustive thickness sweep
MaxT == 403
\* number of concurrent callers
NumCallers == 3

-----------------------------------------------------------------------------
(* Strings *)

S235JR == <<"S", " ", "2", "3", "5", " ", "J", "R">>
S235J0 == <<"S", " ", "2", "3", "5", " ", "J", "0">>
S45    == <<"S", "4", "5">>

A_S235   == <<"S", " ", "2", "3", "5">>
A_S999   == <<"S", " ", "9", "9", "9">>
A_Sdot35 == <<"S", " ", ".", "3", "5">>

\* the grade strings an instance is constructed with
Aceros == {A_S235, A_S999, A_Sdot35, S235J0}

\* the rows tables are made of: Calidad, tmax (mm), fy, fu (N/mm2).  Rows of
\* designations sharing the prefix "S 235" carry different values, so that the
\* row a query reads can be told from its result.
RowPool ==
    { [Calidad |-> S235JR, tmax |-> 16,  fy |-> 235, fu |-> 360],
      [Calidad |-> S235J0, tmax |-> 16,  fy |-> 236, fu |-> 361],
      [Calidad |-> S235JR, tmax |-> 3,   fy |-> 237, fu |-> 362],
      [Calidad |-> S45,    tmax |-> 16,  fy |-> 450, fu |-> 550] }

\* every table of at most MaxRows rows, in every storage order
Tables == UNION { [1..n -> RowPool] : n \in 0..MaxRows }

\* self._df_cache = None (line 51), and a loaded table
None == [loaded |-> FALSE, rows |-> <<>>]
Loaded(rows) == [loaded |-> TRUE, rows |-> rows]

-----------------------------------------------------------------------------
(* Outcomes of a call: a returned value or the exception that ended it *)

NotCalled     == [st |-> "none", val |-> 0, row |-> 0]
Ok(v, r)      == [st |-> "ok", val |-> v, row |-> r]
Raise(e)      == [st |-> e, val |-> 0, row |-> 0]
NoList        == [st |-> "none", val |-> <<>>]
OkList(l)     == [st |-> "ok", val |-> l]

-----------------------------------------------------------------------------
(* Pure functions of the program *)

\* valores_limite of _obtener_t_max (line 92)
valores_limite == <<3, 16, 40, 63, 80, 100, 125, 150, 200, 250, 400>>

\* next(valor for valor in valores_limite if self.t <= valor) (line 93):
\* the scan from position i on; StopIteration when the sequence is exhausted
RECURSIVE NextValor(_, _)
NextValor(tt, i) ==
    IF i > Len(valores_limite) THEN Raise("StopIteration")
    ELSE IF tt <= Scale * valores_limite[i] THEN Ok(valores_limite[i], 0)
    ELSE NextValor(tt, i + 1)

\* a variant that returns the last limit as a sentinel when the scan is exhausted
ObtenerTMaxCentinela(tt) ==
    IF NextValor(tt, 1).st = "ok" THEN NextValor(tt, 1)
    ELSE Ok(valores_limite[Len(valores_limite)], 0)

\* _obtener_t_max (lines 85-95) for thickness tt
ObtenerTMaxDe(tt) == NextValor(tt, 1)

\* Series.str.contains(pat) (line 108): pandas' default is regex=True, so pat
\* is searched as a regular expression (re.search).  Of the metacharacters
\* the model has ".", which matches any character; the others are literals.
StrContains(s, pat) ==
    \E i \in 0..(Len(s) - Len(pat)) :
        \A k \in 1..Len(pat) : pat[k] = "." \/ pat[k] = s[i + k]

\* the boolean mask of lines 108 and 119: the positions of the rows of df
\* whose Calidad matches ac and whose tmax equals t_max
Mascara(df, ac, t_max) ==
    { i \in 1..Len(df) : StrContains(df[i].Calidad, ac) /\ df[i].tmax = t_max }

Minimo(S) == CHOOSE x \in S : \A y \in S : x <= y

\* df[mask][col].values[0] (lines 108, 119): the column's value in the first
\* selected row, IndexError when the selection is empty
PrimerValor(df, mask, col) ==
    IF mask = {} THEN Raise("IndexError")
    ELSE Ok(df[Minimo(mask)][col], Minimo(mask))

\* a variant that keeps the duplicates
UniqueSinQuitar(s) == s

\* Series.unique().tolist() (lines 71, 83): the distinct values in order of
\* first appearance
RECURSIVE Unique(_)
Unique(s) ==
    IF s = <<>> THEN <<>>
    ELSE LET u == Unique(SubSeq(s, 1, Len(s) - 1))
             x == s[Len(s)]
         IN IF \E j \in 1..Len(u) : u[j] = x THEN u ELSE Append(u, x)

\* df['Calidad'] (lines 71, 83)
ColCalidad(df) == [i \in 1..Len(df) |-> df[i].Calidad]

\* a variant that cuts after four characters
Slice4(calidad) == SubSeq(calidad, 1, IF Len(calidad) < 4 THEN Len(calidad) ELSE 4)

\* calidad[:5] (line 83)
Slice5(calidad) == SubSeq(calidad, 1, IF Len(calidad) < 5 THEN Len(calidad) ELSE 5)

\* the line limite_elastico prints (line 106)
LineaTMax(t_max) == <<"t_max = ", t_max>>

\* SQLitePandasDF(path, tabla).sql_to_df() (lines 60-61): the named table of
\* the database file as a DataFrame, rows in storage order
SqlToDf(st) == st

\* _load_dataframe (lines 53-62), run without interruption: the cache after it
\* and the number of reads of the store after it
CacheTrasLoad(cache, st) == IF cache = None THEN Loaded(SqlToDf(st)) ELSE cache
\* a variant that reads the store whatever the cache holds
ReadsSinGuarda(cache, n) == n + 1
ReadsTrasLoad(cache, n)  == IF cache = None THEN n + 1 ELSE n

\* the selections of line 108 (fy) and of line 119 (fu)
SeleccionFy(df, ac, t_max) == PrimerValor(df, Mascara(df, ac, t_max), "fy")
\* a variant that selects by equality of the grade, as line 118 does
SeleccionFuIgual(df, ac, t_max) ==
    PrimerValor(df, { i \in 1..Len(df) : df[i].Calidad = ac /\ df[i].tmax = t_max }, "fu")
SeleccionFu(df, ac, t_max) == PrimerValor(df, Mascara(df, ac, t_max), "fu")

\* what limite_elastico prints (line 106), once t_max is known
Imprime(out, t_max) == Append(out, LineaTMax(t_max))

-----------------------------------------------------------------------------
(* One instance, used by one caller *)

\* thicknesses next to the first and the last limit of valores_limite, in
\* 1/Scale mm: they fall in the bands 3, 16 and 400 and beyond the last
LimitesMuestra == {3, 400}
TMuestra == { Scale * v + d : v \in LimitesMuestra, d \in {-1, 0, 1} }

\* the table of the exhaustive thickness sweep
TablaBarrido ==
    << [Calidad |-> S235JR, tmax |-> 3,   fy |-> 237, fu |-> 362],
       [Calidad |-> S235JR, tmax |-> 16,  fy |-> 235, fu |-> 360],
       [Calidad |-> S45,    tmax |-> 400, fy |-> 450, fu |-> 550] >>

Instances == {1, 2}
Callers   == 1..NumCallers

ConcInit ==
    /\ cachesC = [i \in Instances |-> None]
    /\ readsC  = [i \in Instances |-> 0]
    /\ pc      = [c \in Callers |-> "idle"]
    /\ instOf  = [c \in Callers |-> 1]
    /\ localDf = [c \in Callers |-> <<>>]
    /\ retC    = [c \in Callers |-> None]

\* __init__ (lines 30-51): the fields are set from the arguments without any
\* validation and the cache is empty; nothing is read
Construido ==
    /\ df_cache = None
    /\ reads = 0
    /\ stdout = <<>>
    /\ ret_tmax = NotCalled
    /\ ret_fy = NotCalled
    /\ ret_fu = NotCalled
    /\ ret_cal = NoList
    /\ ret_simb = NoList

Init ==
    /\ \/ acero \in Aceros /\ t \in TMuestra /\ store \in Tables
       \/ acero = A_S235 /\ t \in 0..(Scale * MaxT) /\ store = TablaBarrido
    /\ Construido
    /\ ConcInit

\* _obtener_t_max (lines 85-95)
ObtenerTMax ==
    /\ ret_tmax' = ObtenerTMaxDe(t)
    /\ UNCHANGED <<acero, t, store, df_cache, reads, stdout,
                   ret_fy, ret_fu, ret_cal, ret_simb>>
    /\ UNCHANGED concVars

\* calidades (lines 64-71)
Calidades ==
    /\ df_cache' = CacheTrasLoad(df_cache, store)
    /\ reads' = ReadsTrasLoad(df_cache, reads)
    /\ ret_cal' = OkList(Unique(ColCalidad(df_cache'.rows)))
    /\ UNCHANGED <<acero, t, store, stdout, ret_tmax, ret_fy, ret_fu, ret_simb>>
    /\ UNCHANGED concVars

\* calidades_simbolo_principal (lines 73-83)
CalidadesSimboloPrincipal ==
    /\ df_cache' = CacheTrasLoad(df_cache, store)
    /\ reads' = ReadsTrasLoad(df_cache, reads)
    /\ ret_simb' = LET u == Unique(ColCalidad(df_cache'.rows))
                   IN OkList([i \in 1..Len(u) |-> Slice5(u[i])])
    /\ UNCHANGED <<acero, t, store, stdout, ret_tmax, ret_fy, ret_fu, ret_cal>>
    /\ UNCHANGED concVars

\* limite_elastico (lines 97-108): the table is loaded, then t_max is computed
\* (StopIteration ends the call here), then t_max is printed, then the row is
\* selected (IndexError when none is)
LimiteElastico ==
    /\ Len(stdout) < MaxPrints
    /\ df_cache' = CacheTrasLoad(df_cache, store)
    /\ reads' = ReadsTrasLoad(df_cache, reads)
    /\ LET t_max == ObtenerTMaxDe(t)
       IN IF t_max.st # "ok"
          THEN /\ ret_fy' = t_max
               /\ stdout' = stdout
          ELSE /\ stdout' = Imprime(stdout, t_max.val)
               /\ ret_fy' = SeleccionFy(df_cache'.rows, acero, t_max.val)
    /\ UNCHANGED <<acero, t, store, ret_tmax, ret_fu, ret_cal, ret_simb>>
    /\ UNCHANGED concVars

\* resistencia_ultima_traccion (lines 110-119)
ResistenciaUltimaTraccion ==
    /\ df_cache' = CacheTrasLoad(df_cache, store)
    /\ reads' = ReadsTrasLoad(df_cache, reads)
    /\ LET t_max == ObtenerTMaxDe(t)
       IN IF t_max.st # "ok"
          THEN ret_fu' = t_max
          ELSE ret_fu' = SeleccionFu(df_cache'.rows, acero, t_max.val)
    /\ UNCHANGED <<acero, t, store, stdout, ret_tmax, ret_fy, ret_cal, ret_simb>>
    /\ UNCHANGED concVars

Next ==
    \/ ObtenerTMax
    \/ Calidades
    \/ CalidadesSimboloPrincipal
    \/ LimiteElastico
    \/ ResistenciaUltimaTraccion

Spec == Init /\ [][Next]_vars

-----------------------------------------------------------------------------
(* Several callers of _load_dataframe on the instances, one statement at a *)
(* time: a thread switch can fall between any two of its statements        *)

\* a variant in which the cache is one attribute shared by the instances
AsignaCacheCompartida(caches, i, df) == [j \in DOMAIN caches |-> Loaded(df)]

\* self._df_cache = <the table read> (line 61) on instance i
AsignaCache(caches, i, df) == [caches EXCEPT ![i] = Loaded(df)]

InitConc ==
    /\ acero = A_S235
    /\ t = Scale * 3
    /\ store \in { tb \in Tables : Len(tb) <= 1 }
    /\ Construido
    /\ ConcInit

\* a caller invokes a query of instance i, which enters _load_dataframe
Call(c) ==
    /\ pc[c] = "idle"
    /\ \E i \in Instances : instOf' = [instOf EXCEPT ![c] = i]
    /\ pc' = [pc EXCEPT ![c] = "check"]
    /\ UNCHANGED <<cachesC, readsC, localDf, retC>>
    /\ UNCHANGED seqVars

\* if self._df_cache is None (line 59)
Check(c) ==
    /\ pc[c] = "check"
    /\ pc' = [pc EXCEPT ![c] =
                 IF cachesC[instOf[c]] = None THEN "fetch" ELSE "return"]
    /\ UNCHANGED <<cachesC, readsC, instOf, localDf, retC>>
    /\ UNCHANGED seqVars

\* sql_pd.sql_to_df() (lines 60-61): the read of the backing store
Fetch(c) ==
    /\ pc[c] = "fetch"
    /\ localDf' = [localDf EXCEPT ![c] = SqlToDf(store)]
    /\ readsC' = [readsC EXCEPT ![instOf[c]] = @ + 1]
    /\ pc' = [pc EXCEPT ![c] = "assign"]
    /\ UNCHANGED <<cachesC, instOf, retC>>
    /\ UNCHANGED seqVars

\* self._df_cache = ... (line 61): the assignment of what was read
Assign(c) ==
    /\ pc[c] = "assign"
    /\ cachesC' = AsignaCache(cachesC, instOf[c], localDf[c])
    /\ pc' = [pc EXCEPT ![c] = "return"]
    /\ UNCHANGED <<readsC, instOf, localDf, retC>>
    /\ UNCHANGED seqVars

\* return self._df_cache (line 62)
Return(c) ==
    /\ pc[c] = "return"
    /\ retC' = [retC EXCEPT ![c] = cachesC[instOf[c]]]
    /\ pc' = [pc EXCEPT ![c] = "done"]
    /\ UNCHANGED <<cachesC, readsC, instOf, localDf>>
    /\ UNCHANGED seqVars

NextConc ==
    \E c \in Callers :
        \/ Call(c)
        \/ Check(c)
        \/ Fetch(c)
        \/ Assign(c)
        \/ Return(c)

SpecConc == InitConc /\ [][NextConc]_vars

-----------------------------------------------------------------------------
(* The claims *)

\* the band upper bounds the specification names
Bandas == {16, 40, 63, 80, 100, 125, 150, 200, 250, 400}
UltimaBanda == valores_limite[Len(valores_limite)]
EnRango == 0 < t /\ t <= Scale * UltimaBanda

\* p occurs in s as a substring, character by character
EsSubcadena(p, s) ==
    \E i \in 0..(Len(s) - Len(p)) : \A k \in 1..Len(p) : p[k] = s[i + k]

\* the rows of the table whose grade contains acero as a substring and whose
\* tmax is banda
FilasSubcadena(banda) ==
    { i \in 1..Len(store) :
        EsSubcadena(acero, store[i].Calidad) /\ store[i].tmax = banda }

\* C1: for every thickness 0 < t <= 400, _obtener_t_max returns the smallest
\* element of {16, 40, 63, 80, 100, 125, 150, 200, 250, 400} that is >= t.
C1_MenorBanda ==
    (ret_tmax.st # "none" /\ EnRango) =>
        /\ ret_tmax.st = "ok"
        /\ ret_tmax.val \in Bandas
        /\ t <= Scale * ret_tmax.val
        /\ \A b \in Bandas : t <= Scale * b => ret_tmax.val <= b

\* C2: for every thickness t > 400 and every grade, _obtener_t_max,
\* limite_elastico and resistencia_ultima_traccion end in StopIteration and
\* return neither a value nor a sentinel.
C2_NotFound ==
    t > Scale * UltimaBanda =>
        \A r \in {ret_tmax, ret_fy, ret_fu} : r.st \in {"none", "StopIteration"}

C2_Witness ==
    /\ t > Scale * UltimaBanda
    /\ ret_tmax.st = "StopIteration"
    /\ ret_fy.st = "StopIteration"
    /\ ret_fu.st = "StopIteration"

\* C3: limite_elastico returns the fy of the first row, in storage order,
\* whose grade contains the grade string as a substring and whose tmax is the
\* band computed from the thickness.
C3_PrimeraFilaSubcadena ==
    (ret_fy.st # "none" /\ ObtenerTMaxDe(t).st = "ok") =>
        LET F == FilasSubcadena(ObtenerTMaxDe(t).val)
        IN IF F = {} THEN ret_fy.st # "ok"
           ELSE ret_fy = Ok(store[Minimo(F)].fy, Minimo(F))

\* C4: limite_elastico and resistencia_ultima_traccion of one instance select
\* the same row: both end in the same failure, or fy and fu are the two
\* columns of one row of the table.
C4_MismaFila ==
    (ret_fy.st # "none" /\ ret_fu.st # "none") =>
        /\ ret_fy.st = ret_fu.st
        /\ ret_fy.st = "ok" =>
              /\ ret_fy.row = ret_fu.row
              /\ ret_fy.row \in 1..Len(store)
              /\ ret_fy.val = store[ret_fy.row].fy
              /\ ret_fu.val = store[ret_fy.row].fu

\* both queries answered from a table in which two rows of different
\* designations match the grade at the band
C4_Witness ==
    /\ ret_fy.st = "ok"
    /\ ret_fu.st = "ok"
    /\ \E i, j \in 1..Len(store) :
          /\ i < j
          /\ store[i].Calidad # store[j].Calidad
          /\ {i, j} \subseteq Mascara(store, acero, ObtenerTMaxDe(t).val)

Llamado ==
    \/ ret_cal.st # "none"
    \/ ret_simb.st # "none"
    \/ ret_fy.st # "none"
    \/ ret_fu.st # "none"

\* C5: after any sequence of calls of calidades, calidades_simbolo_principal,
\* limite_elastico and resistencia_ultima_traccion, failing ones included, the
\* store has been read once if a call was made and never otherwise, and the
\* cache holds the table from the first call on.
C5_UnaLectura ==
    /\ reads = (IF Llamado THEN 1 ELSE 0)
    /\ df_cache = (IF Llamado THEN Loaded(store) ELSE None)

\* the four operations called, two of them ended by an exception
C5_Witness ==
    /\ ret_cal.st = "ok"
    /\ ret_simb.st = "ok"
    /\ ret_fy.st = "StopIteration"
    /\ ret_fu.st = "StopIteration"
    /\ reads = 1

\* C6: for every thickness 0 < t <= 400, when the grade string is a
\* substring of no row's grade at the computed band, limite_elastico and
\* resistencia_ultima_traccion end in IndexError and return no value.
C6_NoMatch ==
    (EnRango /\ FilasSubcadena(ObtenerTMaxDe(t).val) = {}) =>
        \A r \in {ret_fy, ret_fu} : r.st \in {"none", "IndexError"}

\* C7: a call of limite_elastico or of resistencia_ultima_traccion changes
\* nothing but the empty cache: grade, thickness and a loaded cache are left
\* as they were and nothing is printed.
C7_LecturasPuras ==
    [][(LimiteElastico \/ ResistenciaUltimaTraccion) =>
          /\ acero' = acero
          /\ t' = t
          /\ store' = store
          /\ df_cache # None => df_cache' = df_cache
          /\ stdout' = stdout]_vars

\* C8: calidades_simbolo_principal and calidades return lists of the same
\* length, and the i-th prefix is the first five characters of the i-th
\* designation, or all of it when it has fewer.
C8_Prefijos ==
    (ret_cal.st = "ok" /\ ret_simb.st = "ok") =>
        /\ Len(ret_simb.val) = Len(ret_cal.val)
        /\ \A i \in 1..Len(ret_cal.val) :
              LET g == ret_cal.val[i]
                  p == ret_simb.val[i]
              IN /\ Len(p) = (IF Len(g) < 5 THEN Len(g) ELSE 5)
                 /\ \A k \in 1..Len(p) : p[k] = g[k]

\* both lists returned from a table with a designation longer than five
\* characters and one shorter
C8_Witness ==
    /\ ret_cal.st = "ok"
    /\ ret_simb.st = "ok"
    /\ \E i, j \in 1..Len(ret_cal.val) :
          Len(ret_cal.val[i]) > 5 /\ Len(ret_cal.val[j]) < 5

\* position of the first row of the table with designation g
PrimeraPos(g) == Minimo({ i \in 1..Len(store) : store[i].Calidad = g })

\* C9: calidades returns every designation of the grade column exactly once,
\* ordered by the position of its first occurrence in the table.
C9_Calidades ==
    ret_cal.st = "ok" =>
        LET l == ret_cal.val
        IN /\ { l[i] : i \in 1..Len(l) } = { store[i].Calidad : i \in 1..Len(store) }
           /\ \A i, j \in 1..Len(l) : i < j =>
                 /\ l[i] # l[j]
                 /\ PrimeraPos(l[i]) < PrimeraPos(l[j])

\* calidades called on a table in which a designation comes back after
\* another one
C9_Witness ==
    /\ ret_cal.st = "ok"
    /\ Len(ret_cal.val) = 2
    /\ \E i, j, k \in 1..Len(store) :
          /\ i < j
          /\ j < k
          /\ store[i].Calidad = store[k].Calidad
          /\ store[i].Calidad # store[j].Calidad

\* the callers of instance i that have read the store
Lectores(i) ==
    { c \in Callers : instOf[c] = i /\ pc[c] \in {"assign", "return", "done"} }

\* C10: the test and the load of _load_dataframe are not atomic, so callers
\* of one instance that all saw the empty cache each read the store; a step
\* of a caller of one instance changes neither the cache nor the reads of
\* another instance.
C10_InstanciasAisladas ==
    [][/\ \A c \in Callers : pc'[c] # pc[c] =>
             \A j \in Instances \ {instOf'[c]} :
                 cachesC'[j] = cachesC[j] /\ readsC'[j] = readsC[j]
       /\ \A i \in Instances :
             /\ readsC'[i] <= Cardinality(Lectores(i)')
             /\ cachesC'[i] \in {None, Loaded(store)}]_vars

\* two callers of one instance both saw the empty cache and both read the
\* store, while the other instance was not touched
C10_DobleLectura ==
    \E i, j \in Instances :
        /\ readsC[i] >= 2
        /\ cachesC[i] # None
        /\ readsC[j] = 0
        /\ cachesC[j] = None

====
